---- MODULE Spec2Model ----
(***************************************************************************)
(* kantonq: an HTTP service over one table, "transactions".                *)
(*   GET  /transactions -> main.rs get_transactions -> repository.rs       *)
(*   POST /transactions -> main.rs add_transaction  -> repository.rs       *)
(* A request is a process: it is received (the body is deserialized), it   *)
(* takes a connection from the pool, prepares its statement, runs it, maps *)
(* the rows and answers.  The pool and the storage engine are the external *)
(* collaborators; they are modelled by what the program relies on.         *)
(***************************************************************************)
EXTENDS Integers, Sequences, FiniteSets, TLC

\* ---------------------------------------------------------------- bounds
MaxReq == 3
PoolMax == 2

Reqs == 1..MaxReq

\* ------------------------------------------------- Option, SQL and JSON
\* Option<T> of Rust: None is {}, Some(v) is {v}.
\* A cell of a row: [null, val]; a NULL text cell carries "", a NULL
\* integer cell carries 0.
\* A JSON value: <<>> is null, <<v>> is the string or the number v.
None == {}
Some(v) == {v}
Unwrap(o) == CHOOSE v \in o : TRUE

ToSql(v) == [null |-> FALSE, val |-> v]
ToSqlOptText(o) == IF o = None THEN [null |-> TRUE, val |-> ""] ELSE ToSql(Unwrap(o))
ToSqlOptInt(o) == IF o = None THEN [null |-> TRUE, val |-> 0] ELSE ToSql(Unwrap(o))

FromSql(c) == c.val
FromSqlOptNoNull(c) == Some(c.val)
FromSqlOpt(c) == IF c.null THEN None ELSE Some(c.val)

ToJson(v) == <<v>>
ToJsonOpt(o) == IF o = None THEN <<>> ELSE <<Unwrap(o)>>

FromJsonOpt(j, f) == IF f \in DOMAIN j /\ j[f] # <<>> THEN Some(j[f][1]) ELSE None

\* serde Deserialize of Transaction: a missing or null optional field is None.
Deserialize(j) ==
  [id |-> j["id"][1], datetime |-> j["datetime"][1],
   trx_type |-> j["trx_type"][1], trx_subtype |-> j["trx_subtype"][1],
   wallet_from |-> FromJsonOpt(j, "wallet_from"),
   wallet_to |-> FromJsonOpt(j, "wallet_to"),
   name |-> j["name"][1], amount |-> j["amount"][1],
   fee |-> FromJsonOpt(j, "fee"),
   description |-> FromJsonOpt(j, "description")]

\* serde Serialize of Transaction: all ten fields, None as null.
Serialize(t) ==
  [id |-> ToJson(t.id), datetime |-> ToJson(t.datetime),
   trx_type |-> ToJson(t.trx_type), trx_subtype |-> ToJson(t.trx_subtype),
   wallet_from |-> ToJsonOpt(t.wallet_from),
   wallet_to |-> ToJsonOpt(t.wallet_to),
   name |-> ToJson(t.name), amount |-> ToJson(t.amount),
   fee |-> ToJsonOpt(t.fee),
   description |-> ToJsonOpt(t.description)]

\* The ten parameters $1..$10 of the INSERT, in the order of the slice.
InsertParamsNoDescription(t) ==
  << ToSql(t.id), ToSql(t.datetime), ToSql(t.trx_type), ToSql(t.trx_subtype),
     ToSqlOptText(t.wallet_from), ToSqlOptText(t.wallet_to),
     ToSql(t.name), ToSql(t.amount), ToSqlOptInt(t.fee),
     ToSqlOptText(None) >>
InsertParamsSwapped(t) ==
  << ToSql(t.id), ToSql(t.datetime), ToSql(t.trx_type), ToSql(t.trx_subtype),
     ToSqlOptText(t.wallet_to), ToSqlOptText(t.wallet_from),
     ToSql(t.name), ToSql(t.amount), ToSqlOptInt(t.fee),
     ToSqlOptText(t.description) >>
InsertParams(t) ==
  << ToSql(t.id), ToSql(t.datetime), ToSql(t.trx_type), ToSql(t.trx_subtype),
     ToSqlOptText(t.wallet_from), ToSqlOptText(t.wallet_to),
     ToSql(t.name), ToSql(t.amount), ToSqlOptInt(t.fee),
     ToSqlOptText(t.description) >>

\* The column list of the INSERT binds parameter $i to the i-th column.
InsertRow(p) ==
  [id |-> p[1], datetime |-> p[2], trx_type |-> p[3], trx_subtype |-> p[4],
   wallet_from |-> p[5], wallet_to |-> p[6], name |-> p[7], amount |-> p[8],
   fee |-> p[9], description |-> p[10]]

\* Transaction::from_row_ref: each field is read from the column of its name.
FromRow(row) ==
  [id |-> FromSql(row.id), datetime |-> FromSql(row.datetime),
   trx_type |-> FromSql(row.trx_type), trx_subtype |-> FromSql(row.trx_subtype),
   wallet_from |-> FromSqlOpt(row.wallet_from),
   wallet_to |-> FromSqlOpt(row.wallet_to),
   name |-> FromSql(row.name), amount |-> FromSql(row.amount),
   fee |-> FromSqlOpt(row.fee),
   description |-> FromSqlOpt(row.description)]

MapRows(rows) == [i \in 1..Len(rows) |-> FromRow(rows[i])]

\* ------------------------------------------------------------ the inputs
Ids == {"t1", "t2"}

\* Request bodies.  Shape 1: wallet_from and fee are omitted, wallet_to and
\* description are null.  Shape 2: every optional field is present, with
\* the empty string and zero among the values.
Body(i, shape) ==
  IF shape = 1
    THEN [f \in {"id", "datetime", "trx_type", "trx_subtype", "name", "amount",
                 "wallet_to", "description"} |->
            CASE f = "id" -> <<i>>
              [] f = "datetime" -> <<"2024-01-01T00:00:00Z">>
              [] f = "trx_type" -> <<"deposit">>
              [] f = "trx_subtype" -> <<"cash">>
              [] f = "name" -> <<"Alice">>
              [] f = "amount" -> <<1000>>
              [] OTHER -> <<>>]
    ELSE [id |-> <<i>>, datetime |-> <<"2024-01-02T00:00:00Z">>,
          trx_type |-> <<"transfer">>, trx_subtype |-> <<"">>,
          wallet_from |-> <<"">>, wallet_to |-> <<"w2">>,
          name |-> <<"Bob">>, amount |-> <<0 - 5>>, fee |-> <<0>>,
          description |-> <<"">>]

Shapes == {1, 2}

\* The value of `transaction` of a request that carries none (GET).
NoTransaction == Deserialize(Body("", 1))

\* ------------------------------------------------------------- the state
VARIABLES
  table,        \* the rows of "transactions", in storage order
  checkedOut,   \* the number of connections out of the pool
  pc,           \* where each request is
  method,       \* "GET" or "POST" ("" before the request is received)
  transaction,  \* transaction_data of a POST
  queryResult,  \* what client.query gave: [ok, rows]
  response,     \* the end of the request: [status, outcome, body]
  acquires,     \* calls of db_pool.get() by the request
  execs         \* calls of client.query by the request

vars == <<table, checkedOut, pc, method, transaction, queryResult, response,
          acquires, execs>>

NoResult == [ok |-> FALSE, rows |-> <<>>]
NoResponse == [status |-> 0, outcome |-> "none", body |-> <<>>]

Init ==
  /\ table = <<>>
  /\ checkedOut = 0
  /\ pc = [r \in Reqs |-> "idle"]
  /\ method = [r \in Reqs |-> ""]
  /\ transaction = [r \in Reqs |-> NoTransaction]
  /\ queryResult = [r \in Reqs |-> NoResult]
  /\ response = [r \in Reqs |-> NoResponse]
  /\ acquires = [r \in Reqs |-> 0]
  /\ execs = [r \in Reqs |-> 0]

\* ----------------------------------------------- the storage engine
\* The permutations of a sequence: a SELECT without ORDER BY gives the rows
\* in an order the engine chooses.
Perms(s) ==
  { [i \in 1..Len(s) |-> s[f[i]]] :
      f \in { g \in [1..Len(s) -> 1..Len(s)] :
                \A i, k \in 1..Len(s) : i # k => g[i] # g[k] } }

HasId(tbl, i) == \E k \in 1..Len(tbl) : tbl[k].id.val = i

\* ------------------------------------------------- error.rs (MyError)
\* The response of an error: 500 for every kind.
ErrorResponse(e) == [status |-> 500, outcome |-> e, body |-> <<>>]

\* ---------------------------------------------------- repository.rs
Ok(v) == [ok |-> TRUE, val |-> v, err |-> "none"]
Err(e) == [ok |-> FALSE, val |-> <<>>, err |-> e]

\* get_transactions, from the result of client.query on.
RepoGetTransactionsLast(qr) ==
  IF qr.ok
    THEN LET v == MapRows(qr.rows)
         IN IF Len(v) = 0 THEN Ok(v) ELSE Ok(<<v[Len(v)]>>)
    ELSE Err("PGError")
RepoGetTransactionsNotFound(qr) ==
  IF qr.ok
    THEN IF Len(qr.rows) = 0 THEN Err("NotFound") ELSE Ok(MapRows(qr.rows))
    ELSE Err("PGError")
RepoGetTransactions(qr) ==
  IF qr.ok THEN Ok(MapRows(qr.rows)) ELSE Err("PGError")

\* add_transaction, from the result of client.query on: `?`, map, pop, ok_or.
RepoAddTransactionErrAsNotFound(qr) ==
  LET v == MapRows(qr.rows)
  IN IF ~qr.ok \/ Len(v) = 0 THEN Err("NotFound") ELSE Ok(<<v[Len(v)]>>)
RepoAddTransaction(qr) ==
  IF ~qr.ok THEN Err("PGError")
  ELSE LET v == MapRows(qr.rows)
       IN IF Len(v) = 0 THEN Err("NotFound") ELSE Ok(<<v[Len(v)]>>)

\* ----------------------------------------------------------- main.rs
\* HttpResponse::Ok().json(..) of a list and of one record; `?` on an error.
HandlerGetResponse(res) ==
  IF res.ok
    THEN [status |-> 200, outcome |-> "ok",
          body |-> [i \in 1..Len(res.val) |-> Serialize(res.val[i])]]
    ELSE ErrorResponse(res.err)

HandlerAddResponse(res) ==
  IF res.ok
    THEN [status |-> 200, outcome |-> "ok", body |-> <<Serialize(res.val[1])>>]
    ELSE ErrorResponse(res.err)

\* The drop of `client` gives the connection back to the pool.
Drop(n) == n - 1

\* A panic unwinds the handler: no response is written.
Panicked == [status |-> 0, outcome |-> "panic", body |-> <<>>]

\* ------------------------------------------------------------ actions
\* The server takes a GET request.
ReceiveGet(r) ==
  /\ pc[r] = "idle"
  /\ \A q \in Reqs : q < r => pc[q] # "idle"
  /\ pc' = [pc EXCEPT ![r] = "acquire"]
  /\ method' = [method EXCEPT ![r] = "GET"]
  /\ UNCHANGED <<table, checkedOut, transaction, queryResult, response,
                 acquires, execs>>

\* The server takes a POST request; web::Json deserializes its body.
ReceivePost(r) ==
  /\ pc[r] = "idle"
  /\ \A q \in Reqs : q < r => pc[q] # "idle"
  /\ \E i \in Ids, shape \in Shapes :
       transaction' = [transaction EXCEPT ![r] = Deserialize(Body(i, shape))]
  /\ pc' = [pc EXCEPT ![r] = "acquire"]
  /\ method' = [method EXCEPT ![r] = "POST"]
  /\ UNCHANGED <<table, checkedOut, queryResult, response, acquires, execs>>

\* db_pool.get().await gives a connection.
AcquireOk(r) ==
  /\ pc[r] = "acquire"
  /\ checkedOut < PoolMax
  /\ checkedOut' = checkedOut + 1
  /\ acquires' = [acquires EXCEPT ![r] = @ + 1]
  /\ pc' = [pc EXCEPT ![r] = "prepare"]
  /\ UNCHANGED <<table, method, transaction, queryResult, response, execs>>

\* db_pool.get().await fails (time-out, no connection to the server):
\* map_err(MyError::PoolError)? ends the handler.
AcquireFailRetry(r) ==
  /\ pc[r] = "acquire"
  /\ acquires' = [acquires EXCEPT ![r] = @ + 1]
  /\ UNCHANGED <<table, checkedOut, pc, method, transaction, queryResult,
                 response, execs>>
AcquireFail(r) ==
  /\ pc[r] = "acquire"
  /\ acquires' = [acquires EXCEPT ![r] = @ + 1]
  /\ response' = [response EXCEPT ![r] = ErrorResponse("PoolError")]
  /\ pc' = [pc EXCEPT ![r] = "done"]
  /\ UNCHANGED <<table, checkedOut, method, transaction, queryResult, execs>>

\* client.prepare(..).await gives the statement.
PrepareOk(r) ==
  /\ pc[r] = "prepare"
  /\ pc' = [pc EXCEPT ![r] = "query"]
  /\ UNCHANGED <<table, checkedOut, method, transaction, queryResult, response,
                 acquires, execs>>

\* client.prepare(..).await fails: unwrap() panics, the unwinding drops
\* the client.
PrepareFailLeak(r) ==
  /\ pc[r] = "prepare"
  /\ response' = [response EXCEPT ![r] = Panicked]
  /\ pc' = [pc EXCEPT ![r] = "done"]
  /\ UNCHANGED <<table, checkedOut, method, transaction, queryResult,
                 acquires, execs>>
PrepareFail(r) ==
  /\ pc[r] = "prepare"
  /\ response' = [response EXCEPT ![r] = Panicked]
  /\ checkedOut' = Drop(checkedOut)
  /\ pc' = [pc EXCEPT ![r] = "done"]
  /\ UNCHANGED <<table, method, transaction, queryResult, acquires, execs>>

\* GET from client.query on.  The SELECT gives all the rows, in some order;
\* the rows are mapped, the response is built, the client is dropped.
QuerySelectOk(r) ==
  /\ pc[r] = "query" /\ method[r] = "GET"
  /\ \E rows \in Perms(table) :
       LET qr == [ok |-> TRUE, rows |-> rows]
       IN /\ queryResult' = [queryResult EXCEPT ![r] = qr]
          /\ response' = [response EXCEPT
                            ![r] = HandlerGetResponse(RepoGetTransactions(qr))]
  /\ execs' = [execs EXCEPT ![r] = @ + 1]
  /\ checkedOut' = Drop(checkedOut)
  /\ pc' = [pc EXCEPT ![r] = "done"]
  /\ UNCHANGED <<table, method, transaction, acquires>>

\* GET, client.query fails (the connection is lost, the table is missing).
QuerySelectFail(r) ==
  /\ pc[r] = "query" /\ method[r] = "GET"
  /\ LET qr == [ok |-> FALSE, rows |-> <<>>]
     IN /\ queryResult' = [queryResult EXCEPT ![r] = qr]
        /\ response' = [response EXCEPT
                          ![r] = HandlerGetResponse(RepoGetTransactions(qr))]
  /\ execs' = [execs EXCEPT ![r] = @ + 1]
  /\ checkedOut' = Drop(checkedOut)
  /\ pc' = [pc EXCEPT ![r] = "done"]
  /\ UNCHANGED <<table, method, transaction, acquires>>

\* POST from client.query on.  The INSERT .. RETURNING stores the row and
\* returns it.
QueryInsertOk(r) ==
  /\ pc[r] = "query" /\ method[r] = "POST"
  /\ ~HasId(table, transaction[r].id)
  /\ LET row == InsertRow(InsertParams(transaction[r]))
         qr == [ok |-> TRUE, rows |-> <<row>>]
     IN /\ table' = Append(table, row)
        /\ queryResult' = [queryResult EXCEPT ![r] = qr]
        /\ response' = [response EXCEPT
                          ![r] = HandlerAddResponse(RepoAddTransaction(qr))]
  /\ execs' = [execs EXCEPT ![r] = @ + 1]
  /\ checkedOut' = Drop(checkedOut)
  /\ pc' = [pc EXCEPT ![r] = "done"]
  /\ UNCHANGED <<method, transaction, acquires>>

\* POST, the INSERT reports success and returns no row: nothing was stored.
QueryInsertNoRow(r) ==
  /\ pc[r] = "query" /\ method[r] = "POST"
  /\ ~HasId(table, transaction[r].id)
  /\ LET qr == [ok |-> TRUE, rows |-> <<>>]
     IN /\ queryResult' = [queryResult EXCEPT ![r] = qr]
        /\ response' = [response EXCEPT
                          ![r] = HandlerAddResponse(RepoAddTransaction(qr))]
  /\ execs' = [execs EXCEPT ![r] = @ + 1]
  /\ checkedOut' = Drop(checkedOut)
  /\ pc' = [pc EXCEPT ![r] = "done"]
  /\ UNCHANGED <<table, method, transaction, acquires>>

\* POST, client.query fails (the primary key rejects the id, the connection
\* is lost): the statement has no effect.
QueryInsertFail(r) ==
  /\ pc[r] = "query" /\ method[r] = "POST"
  /\ LET qr == [ok |-> FALSE, rows |-> <<>>]
     IN /\ queryResult' = [queryResult EXCEPT ![r] = qr]
        /\ response' = [response EXCEPT
                          ![r] = HandlerAddResponse(RepoAddTransaction(qr))]
  /\ execs' = [execs EXCEPT ![r] = @ + 1]
  /\ checkedOut' = Drop(checkedOut)
  /\ pc' = [pc EXCEPT ![r] = "done"]
  /\ UNCHANGED <<table, method, transaction, acquires>>

Next ==
  \E r \in Reqs :
    \/ ReceiveGet(r)
    \/ ReceivePost(r)
    \/ AcquireOk(r)
    \/ AcquireFail(r)
    \/ PrepareOk(r)
    \/ PrepareFail(r)
    \/ QuerySelectOk(r)
    \/ QuerySelectFail(r)
    \/ QueryInsertOk(r)
    \/ QueryInsertNoRow(r)
    \/ QueryInsertFail(r)

Spec == Init /\ [][Next]_vars

TypeOK ==
  /\ checkedOut \in 0..PoolMax
  /\ \A r \in Reqs : pc[r] \in {"idle", "acquire", "prepare", "query", "done"}


\* ---------------------------------------------------------- vocabulary
Posts == {r \in Reqs : method[r] = "POST"}
Gets == {r \in Reqs : method[r] = "GET"}
InFlight(r) == pc[r] \in {"acquire", "prepare", "query"}
Finished(r) == pc[r] = "done"
Succeeded(r) == pc[r] = "done" /\ response[r].outcome = "ok"
SucceededPosts == {r \in Posts : Succeeded(r)}
\* The step in which request r ends.
Ends(r) == pc[r] # "done" /\ pc'[r] = "done"
\* The step in which request r runs client.query.
RunsQuery(r) == pc[r] = "query" /\ pc'[r] = "done"
\* StorageError of the specification: a failure of the pool or of the SQL.
IsStorageError(e) == e \in {"PoolError", "PGError"}
OptFields == {"wallet_from", "wallet_to", "fee", "description"}
AllFields ==
  {"id", "datetime", "trx_type", "trx_subtype", "name", "amount"} \cup OptFields
Range(s) == {s[i] : i \in 1..Len(s)}

\* C1 - Round trip: a POST that succeeds answers with the JSON of a record
\* equal, field for field, to the one it was given (parsed back, the body
\* is the request's transaction), the row the INSERT returned reads back as
\* that record, and that row is in the table.
C1_RoundTrip ==
  \A r \in SucceededPosts :
    /\ response[r].status = 200
    /\ Len(response[r].body) = 1
    /\ DOMAIN response[r].body[1] = AllFields
    /\ Deserialize(response[r].body[1]) = transaction[r]
    /\ \A f \in AllFields \ OptFields :
         response[r].body[1][f] = <<transaction[r][f]>>
    /\ \A f \in OptFields :
         response[r].body[1][f] =
           IF transaction[r][f] = {} THEN <<>>
           ELSE <<CHOOSE v \in transaction[r][f] : TRUE>>
    /\ Len(queryResult[r].rows) = 1
    /\ FromRow(queryResult[r].rows[1]) = transaction[r]
    /\ queryResult[r].rows[1] \in Range(table)

\* A POST succeeded whose optional fields are all present and differ.
C1_Witness ==
  \E r \in SucceededPosts :
    /\ transaction[r].wallet_from = {""}
    /\ transaction[r].wallet_to = {"w2"}
    /\ transaction[r].fee = {0}

\* C2 - List completeness: a GET whose SELECT succeeds answers 200 with a
\* JSON array that has one element for each POST that succeeded so far,
\* and no other: as many elements as such POSTs, and the set of the
\* elements is the set of their records.  With no such POST the array is
\* empty and the status is still 200.
C2_ListCompleteness ==
  [][\A g \in Gets :
       (RunsQuery(g) /\ queryResult'[g].ok) =>
         /\ response'[g].status = 200
         /\ response'[g].outcome = "ok"
         /\ Len(response'[g].body) = Cardinality(SucceededPosts)
         /\ Range(response'[g].body) =
              {Serialize(transaction[p]) : p \in SucceededPosts}
         /\ \A i, k \in 1..Len(response'[g].body) :
              i # k => response'[g].body[i] # response'[g].body[k]]_vars

\* A GET listed two records, in the order opposite to that of their ids.
C2_Witness ==
  \E g \in Gets :
    /\ Succeeded(g)
    /\ Len(response[g].body) = 2
    /\ response[g].body[1].id = <<"t2">>
    /\ response[g].body[2].id = <<"t1">>

C4_ErrorSurfacing ==
  \A r \in Reqs :
    (Finished(r) /\ response[r].outcome \notin {"ok", "NotFound"}) =>
      /\ IsStorageError(response[r].outcome)
      /\ response[r].status \in 500..599

\* C5 - NotFoundError: a request ends with NotFound exactly when it is a
\* POST whose INSERT ran, reported success and returned no row.
C5_NotFoundExactly ==
  \A r \in Reqs :
    Finished(r) =>
      (response[r].outcome = "NotFound" <=>
         /\ method[r] = "POST"
         /\ execs[r] = 1
         /\ queryResult[r].ok
         /\ Len(queryResult[r].rows) = 0)

\* A POST ended with NotFound, and a GET of the empty table succeeded.
C5_Witness ==
  /\ \E r \in Posts : Finished(r) /\ response[r].outcome = "NotFound"
  /\ \E g \in Gets : Succeeded(g) /\ Len(response[g].body) = 0

\* C6 - Optional fields: in the answer of a POST that succeeded, in the row
\* it stored and in every element a GET lists for it, an optional field is
\* null exactly when the request gave none, and otherwise carries the value
\* given (the empty string and zero included).
C6_OptionalNull ==
  \A p \in SucceededPosts : \A f \in OptFields :
    LET given == transaction[p][f]
        OfId(body) ==
          {i \in 1..Len(body) : body[i].id = <<transaction[p].id>>}
    IN /\ (given = {}) <=> (response[p].body[1][f] = <<>>)
       /\ given # {} => response[p].body[1][f] = <<CHOOSE v \in given : TRUE>>
       /\ \A k \in 1..Len(table) :
            table[k].id.val = transaction[p].id =>
              /\ (given = {}) <=> table[k][f].null
              /\ given # {} => table[k][f].val = CHOOSE v \in given : TRUE
       /\ \A g \in Gets :
            Succeeded(g) =>
              \A i \in OfId(response[g].body) :
                /\ (given = {}) <=> (response[g].body[i][f] = <<>>)
                /\ given # {} =>
                     response[g].body[i][f] = <<CHOOSE v \in given : TRUE>>

\* A POST without any optional field succeeded and a GET listed its record,
\* beside a record whose optional fields hold the empty string and zero.
C6_Witness ==
  \E p, q \in SucceededPosts, g \in Gets :
    /\ \A f \in OptFields : transaction[p][f] = {}
    /\ transaction[q].wallet_from = {""} /\ transaction[q].fee = {0}
    /\ Succeeded(g)
    /\ Len(response[g].body) = 2

\* C7 - Append-only: a step leaves the table as it is, or it is the step of
\* a POST that succeeds and adds, after the rows there were, one row: that
\* of its own transaction.  A GET and a POST that fails change nothing.
C7_AppendOnly ==
  [][/\ \/ table' = table
        \/ \E r \in Posts :
             /\ RunsQuery(r)
             /\ response'[r].outcome = "ok"
             /\ Len(table') = Len(table) + 1
             /\ SubSeq(table', 1, Len(table)) = table
             /\ FromRow(table'[Len(table')]) = transaction[r]
     /\ \A g \in Gets : pc'[g] # pc[g] => table' = table
     /\ \A r \in Posts :
          (Ends(r) /\ response'[r].outcome # "ok") => table' = table]_vars

\* The table holds two rows, stored by two POSTs, and a third POST failed
\* on its INSERT.
C7_Witness ==
  /\ Len(table) = 2
  /\ \E r \in Posts : Finished(r) /\ response[r].outcome = "PGError"

\* C8 - Connections: the connections out of the pool are those of the
\* requests between db_pool.get() and their end, one each, never more
\* than the size of the pool; a request that has ended, however it ended,
\* holds none, and asked for one once.
C8_Connections ==
  /\ checkedOut <= PoolMax
  /\ checkedOut = Cardinality({r \in Reqs : pc[r] \in {"prepare", "query"}})
  /\ \A r \in Reqs :
       /\ pc[r] \in {"prepare", "query", "done"} => acquires[r] = 1
       /\ pc[r] \in {"idle", "acquire"} => acquires[r] = 0
  /\ (\A r \in Reqs : pc[r] \in {"idle", "done"}) => checkedOut = 0

\* Every request has ended, one of them by the panic of prepare, one with
\* a success, and no connection is out.
C8_Witness ==
  /\ \A r \in Reqs : Finished(r)
  /\ \E r \in Reqs : response[r].outcome = "panic"
  /\ \E r \in Reqs : response[r].outcome = "ok"
  /\ checkedOut = 0

C10_ConcurrentDuplicates ==
  [][\A a, b \in Posts :
       (a # b /\ transaction[a].id = transaction[b].id
          /\ InFlight(a) /\ Ends(b)) =>
         /\ response'[b].outcome = "ok" \/ IsStorageError(response'[b].outcome)
         /\ response'[b].outcome = "ok" =>
              \A c \in Posts \ {b} :
                transaction[c].id = transaction[b].id => ~Succeeded(c)
         /\ \A i, k \in 1..Len(table') :
              table'[i].id = table'[k].id => i = k
         /\ \A k \in 1..Len(table') :
              \E p \in Posts :
                /\ pc'[p] = "done" /\ response'[p].outcome = "ok"
                /\ FromRow(table'[k]) = transaction[p]]_vars

====
